---- MODULE Spec2Model ----
(***************************************************************************)
(* Model of the selection-state engine of the customMultiSelectPickList    *)
(* Lightning Web Component                                                 *)
(* (force-app/main/default/lwc/customMultiSelectPickList/                  *)
(*  customMultiSelectPickList.js).                                         *)
(*                                                                         *)
(* The component's fields are the variables; every handler, wire callback  *)
(* and @api method is one action that runs to completion (LWC handlers are *)
(* invoked one at a time on the single JavaScript thread).  View-only      *)
(* fields (isExpanded, toggleIcon, itemsClass) are left out: no handler    *)
(* reads them to decide anything about the selection.                      *)
(***************************************************************************)
EXTENDS Naturals, Sequences, FiniteSets, TLC

(***************************************************************************)
(* Bounds of the model.                                                    *)
(***************************************************************************)
NumIds == 2
MaxRecords == 2
MaxPre == 2
MaxRows == 3

(***************************************************************************)
(* JavaScript values.  undefined / null are one value; every other value   *)
(* of the model is a string, so any two values can be compared.            *)
(***************************************************************************)
NoVal == "undefined"
Truthy(v) == v \notin {NoVal, ""}
Or(a, b) == IF Truthy(a) THEN a ELSE b

IdStr == <<"1", "2", "3", "4">>
Label == <<"A", "B", "C", "D">>
Ids == {IdStr[i] : i \in 1..NumIds}
Cats == {"X"}

(***************************************************************************)
(* Array helpers (Array.prototype.map / filter / some / includes / every). *)
(***************************************************************************)
Includes(s, x) == \E i \in 1..Len(s) : s[i] = x
IdsOf(s) == [i \in 1..Len(s) |-> s[i].id]
IdSet(s) == {s[i].id : i \in 1..Len(s)}
SomeId(s, x) == \E i \in 1..Len(s) : s[i].id = x
EverySelected(items) == \A i \in 1..Len(items) : items[i].isSelected
NameId(i) == [name |-> i.name, id |-> i.id]
NameIds(s) == [i \in 1..Len(s) |-> NameId(s[i])]
BoundedSeq(S, n) == UNION {[1..k -> S] : k \in 0..n}

(***************************************************************************)
(* Map.prototype.set on an insertion-ordered Map kept as a sequence of     *)
(* <<key, value>> entries: an existing key keeps its position.             *)
(***************************************************************************)
MapHas(m, k) == \E i \in 1..Len(m) : m[i][1] = k
MapSet(m, k, v) ==
    IF MapHas(m, k)
    THEN [i \in 1..Len(m) |-> IF m[i][1] = k THEN <<k, v>> ELSE m[i]]
    ELSE Append(m, <<k, v>>)
MapGet(m, k) == m[CHOOSE i \in 1..Len(m) : m[i][1] = k][2]

VARIABLES
    groupBy,            \* @api groupBy: field name, or NoVal
    pickValues,         \* @api pickValues: field name, or NoVal
    preSelectedRecords, \* _preSelectedRecords
    processedData,      \* available side: groups of items with flags
    selectedItems,      \* the ordered selection, {name, id}
    selectedGroupsData, \* chosen side: groups of selected items
    tempSelectedItems,  \* ids staged on the available side
    tempChosenItems,    \* ids staged on the chosen side
    isLoading,
    error,
    wired,              \* the rows of the last wiredData call (none: no data in it)
    emitted,            \* 'selection' events dispatched by the last handler
    returned,           \* what the last call returned to the parent, if it was a read
    lastOp,             \* the handler that ran last, when the specification watches it
    watch               \* the handlers a specification records in lastOp

vars == <<groupBy, pickValues, preSelectedRecords, processedData, selectedItems,
          selectedGroupsData, tempSelectedItems, tempChosenItems, isLoading,
          error, wired, emitted, returned, lastOp, watch>>

(***************************************************************************)
(* processQueryResults: the flat rows become groups in first-seen order.   *)
(***************************************************************************)
Field(record, f) == IF f \in DOMAIN record THEN record[f] ELSE NoVal

\* a record whose group field is missing gets no sentinel
GroupNameOfNoSentinel(record, gb) ==
    IF Truthy(gb) THEN Field(record, gb) ELSE "Default Group"

GroupNameOf(record, gb) ==
    IF Truthy(gb) THEN Or(Field(record, gb), "Unassigned") ELSE "Default Group"

DisplayValueOf(record, pv) ==
    IF Truthy(pv) THEN Field(record, pv) ELSE Or(record.Name, record.Id)

RECURSIVE GroupFold(_, _, _, _, _)
GroupFold(data, i, groupMap, gb, pv) ==
    IF i > Len(data) THEN groupMap
    ELSE LET record == data[i]
             groupName == GroupNameOf(record, gb)
             displayValue == DisplayValueOf(record, pv)
             recordId == record.Id
             item == [name |-> displayValue, id |-> recordId, isSelected |-> FALSE]
             old == IF MapHas(groupMap, groupName) THEN MapGet(groupMap, groupName) ELSE <<>>
         IN IF ~Truthy(recordId)
            THEN GroupFold(data, i + 1, groupMap, gb, pv)
            ELSE GroupFold(data, i + 1, MapSet(groupMap, groupName, Append(old, item)), gb, pv)

processQueryResults(data, gb, pv) ==
    LET groupMap == GroupFold(data, 1, <<>>, gb, pv)
    IN [g \in 1..Len(groupMap) |->
          [groupName |-> groupMap[g][1], items |-> groupMap[g][2], isAllSelected |-> FALSE]]

(***************************************************************************)
(* updateSelectedGroupsData: the chosen-side view, from the groups and the *)
(* selection.                                                              *)
(***************************************************************************)
RECURSIVE SelectedFold(_, _, _, _)
SelectedFold(pd, g, groupsMap, sel) ==
    IF g > Len(pd) THEN groupsMap
    ELSE LET group == pd[g]
             selectedInGroup == SelectSeq(group.items, LAMBDA item : SomeId(sel, item.id))
             entry == [groupName |-> group.groupName, items |-> NameIds(selectedInGroup)]
         IN IF Len(selectedInGroup) > 0
            THEN SelectedFold(pd, g + 1, MapSet(groupsMap, group.groupName, entry), sel)
            ELSE SelectedFold(pd, g + 1, groupsMap, sel)

\* every group gets a chosen entry, the ones with no selected item too
updateSelectedGroupsDataAllGroups(pd, sel) ==
    [g \in 1..Len(pd) |->
        [groupName |-> pd[g].groupName,
         items |-> NameIds(SelectSeq(pd[g].items, LAMBDA item : SomeId(sel, item.id)))]]

\* the items of a chosen group come in the order of the selection
updateSelectedGroupsDataInSelectionOrder(pd, sel) ==
    LET chosen == SelectSeq(pd, LAMBDA group :
                      \E i \in 1..Len(group.items) : SomeId(sel, group.items[i].id))
    IN [g \in 1..Len(chosen) |->
          [groupName |-> chosen[g].groupName,
           items |-> NameIds(SelectSeq(sel, LAMBDA si :
                         \E i \in 1..Len(chosen[g].items) :
                            chosen[g].items[i].id = si.id))]]

updateSelectedGroupsData(pd, sel) ==
    LET groupsMap == SelectedFold(pd, 1, <<>>, sel)
    IN [g \in 1..Len(groupsMap) |-> groupsMap[g][2]]

(***************************************************************************)
(* restoreSelection, after its guard: the selection becomes the            *)
(* pre-selected records and every flag is recomputed from them.            *)
(***************************************************************************)
RestoredItems(pre) == NameIds(pre)

\* the flags stay as they were
RestoredDataKeepFlags(pd, pre) == pd

RestoredData(pd, pre) ==
    [g \in 1..Len(pd) |->
        LET updatedItems == [i \in 1..Len(pd[g].items) |->
                [pd[g].items[i] EXCEPT !.isSelected = pd[g].items[i].id \in IdSet(pre)]]
        IN [pd[g] EXCEPT !.items = updatedItems,
                         !.isAllSelected = Len(updatedItems) > 0 /\ EverySelected(updatedItems)]]

\* the pre-selected records no loaded group holds are left out of the selection
restoreSelectionKnownOnly(pd, pre, sel, sgd) ==
    LET known == SelectSeq(pre, LAMBDA record :
                     \E g \in 1..Len(pd) : record.id \in IdSet(pd[g].items))
    IN IF Len(pre) = 0
       THEN <<sel, pd, sgd>>
       ELSE <<RestoredItems(known), RestoredData(pd, pre),
              updateSelectedGroupsData(RestoredData(pd, pre), RestoredItems(known))>>

\* no early return: an empty pre-selection is applied like any other
restoreSelectionAlways(pd, pre, sel, sgd) ==
    <<RestoredItems(pre), RestoredData(pd, pre),
      updateSelectedGroupsData(RestoredData(pd, pre), RestoredItems(pre))>>

\* restoreSelection() run on groups pd: the new <<selectedItems, processedData,
\* selectedGroupsData>>, or the old ones when it returns early.
restoreSelection(pd, pre, sel, sgd) ==
    IF Len(pre) = 0
    THEN <<sel, pd, sgd>>
    ELSE <<RestoredItems(pre), RestoredData(pd, pre),
           updateSelectedGroupsData(RestoredData(pd, pre), RestoredItems(pre))>>

(***************************************************************************)
(* History: lastOp names the handler that ran last if the specification    *)
(* watches it.                                                             *)
(***************************************************************************)
NoResult == [called |-> FALSE, value |-> <<>>]
Result(value) == [called |-> TRUE, value |-> value]

\* the calls that hand a pre-selection to the component
SupplyOps == {"setSelectedRecords", "selectedRecords"}

\* A specification that watches "era" keeps the name of the last watched
\* handler through the handlers that hand over no pre-selection.
RanReturning(op, data, result) ==
    /\ lastOp' = IF op \in watch THEN op
                 ELSE IF "era" \in watch /\ op \notin SupplyOps THEN lastOp
                 ELSE "other"
    /\ watch' = watch
    /\ wired' = data
    /\ returned' = result

RanWire(op, data) == RanReturning(op, data, NoResult)

Ran(op) == RanWire(op, wired)

(***************************************************************************)
(* emitSelectionEvent                                                      *)
(***************************************************************************)
EventDetail(sel) == NameIds(sel)

EmitNothing(sel) == emitted' = <<>>
Emit(sel) == emitted' = <<EventDetail(sel)>>

NoEmit == emitted' = <<>>

(***************************************************************************)
(* Inputs.  The rows come from one SOQL query through                      *)
(* LightningUtils.executeDynamicQuery, so two rows never carry the same    *)
(* Id; here they arrive in the order of their Ids, and a row may lack its  *)
(* group field.                                                            *)
(***************************************************************************)
Row(id, name, cat) == [Id |-> id, Name |-> name, Cat |-> cat]
Rows == {Row(IdStr[i], Label[i], c) : i \in 1..NumIds, c \in Cats \cup {NoVal}}
Pos(id) == CHOOSE i \in DOMAIN IdStr : IdStr[i] = id
DataSets == {d \in BoundedSeq(Rows, MaxRecords) :
                \A i, j \in 1..Len(d) : i < j => Pos(d[i].Id) < Pos(d[j].Id)}

\* The rows the grouping is checked on: any sequence of rows, a row with or
\* without its Id, its Name and its group field, the same Id in several rows.
GroupingRows == {Row(id, name, cat) : id \in Ids \cup {NoVal}, name \in {"A", NoVal},
                                      cat \in {"X", "Y", NoVal}}
GroupingDataSets == BoundedSeq(GroupingRows, MaxRows)

PreRecord(i) == [id |-> IdStr[i], name |-> Label[i]]
PreLists == BoundedSeq({PreRecord(i) : i \in 1..NumIds}, MaxPre)
\* the argument of setSelectedRecords / the selectedRecords setter: an array, or
\* null / undefined
PreArgs == {[defined |-> TRUE, value |-> p] : p \in PreLists}
              \cup {[defined |-> FALSE, value |-> <<>>]}
OrEmpty(arg) == IF arg.defined THEN arg.value ELSE <<>>

InitConfig ==
    /\ groupBy = "Cat"
    /\ pickValues = "Name"

InitState ==
    /\ preSelectedRecords = <<>>
    /\ processedData = <<>>
    /\ selectedItems = <<>>
    /\ selectedGroupsData = <<>>
    /\ tempSelectedItems = <<>>
    /\ tempChosenItems = <<>>
    /\ isLoading = TRUE
    /\ error = NoVal
    /\ wired = <<>>
    /\ emitted = <<>>
    /\ returned = NoResult
    /\ lastOp = "init"

InitFields == InitConfig /\ InitState

Init == InitFields /\ watch = {}
InitCommit == InitFields /\ watch = {"commitToChosen", "commitToAvailable"}
InitImmediate == InitFields /\ watch = {"selectGroup", "removeGroup", "removeItem"}
InitRestore == InitFields /\ watch = {"setSelectedRecords"}
InitRead == InitFields /\ watch = {"getSelectedRecords"}
InitLifecycle == InitFields /\ watch = {"load", "loadError", "reset"}
\* the time since the last reset, up to the next pre-selection handed over
InitSinceReset == InitFields /\ watch = {"reset", "era"}
\* the grouping alone: any configuration of the two field names
InitGrouping ==
    /\ groupBy \in {"Cat", NoVal}
    /\ pickValues \in {"Name", NoVal}
    /\ InitState
    /\ watch = {"load"}

(***************************************************************************)
(* wiredData({error, data}): the three branches of the wire callback.      *)
(***************************************************************************)
\* the groups are computed and the queued pre-selection is not applied
wiredDataLoadedNoRestore(data) ==
    /\ isLoading' = FALSE
    /\ error' = NoVal
    /\ processedData' = processQueryResults(data, groupBy, pickValues)
    /\ NoEmit
    /\ RanWire("load", data)
    /\ UNCHANGED <<groupBy, pickValues, preSelectedRecords, selectedItems,
                   selectedGroupsData, tempSelectedItems, tempChosenItems>>

wiredDataLoaded(data) ==
    LET grouped == processQueryResults(data, groupBy, pickValues)
        restored == IF Len(preSelectedRecords) > 0
                    THEN restoreSelection(grouped, preSelectedRecords,
                                          selectedItems, selectedGroupsData)
                    ELSE <<selectedItems, grouped, selectedGroupsData>>
    IN \E r \in {restored} :   \* the result, computed once
          /\ isLoading' = FALSE
          /\ error' = NoVal
          /\ selectedItems' = r[1]
          /\ processedData' = r[2]
          /\ selectedGroupsData' = r[3]
          /\ NoEmit
          /\ RanWire("load", data)
          /\ UNCHANGED <<groupBy, pickValues, preSelectedRecords,
                         tempSelectedItems, tempChosenItems>>

\* the failure is stored and the spinner is left as it was
wiredDataErrorStillLoading ==
    /\ isLoading' = isLoading
    /\ error' = "error"
    /\ processedData' = <<>>
    /\ NoEmit
    /\ RanWire("loadError", <<>>)
    /\ UNCHANGED <<groupBy, pickValues, preSelectedRecords, selectedItems,
                   selectedGroupsData, tempSelectedItems, tempChosenItems>>

wiredDataError ==
    /\ isLoading' = FALSE
    /\ error' = "error"
    /\ processedData' = <<>>
    /\ NoEmit
    /\ RanWire("loadError", <<>>)
    /\ UNCHANGED <<groupBy, pickValues, preSelectedRecords, selectedItems,
                   selectedGroupsData, tempSelectedItems, tempChosenItems>>

wiredDataPending ==
    /\ isLoading
    /\ isLoading' = TRUE
    /\ NoEmit
    /\ RanWire("loadPending", <<>>)
    /\ UNCHANGED <<groupBy, pickValues, preSelectedRecords, processedData,
                   selectedItems, selectedGroupsData, tempSelectedItems,
                   tempChosenItems, error>>

(***************************************************************************)
(* The selectedRecords setter and setSelectedRecords(records).             *)
(***************************************************************************)
setSelectedRecordsProp(value) ==
    LET pre == OrEmpty(value)
        restored == IF Len(processedData) > 0 /\ Len(pre) > 0
                    THEN restoreSelection(processedData, pre, selectedItems, selectedGroupsData)
                    ELSE <<selectedItems, processedData, selectedGroupsData>>
    IN \E r \in {restored} :   \* the result, computed once
          /\ preSelectedRecords' = pre
          /\ selectedItems' = r[1]
          /\ processedData' = r[2]
          /\ selectedGroupsData' = r[3]
          /\ NoEmit
          /\ Ran("selectedRecords")
          /\ UNCHANGED <<groupBy, pickValues, tempSelectedItems, tempChosenItems,
                         isLoading, error>>

\* what setSelectedRecords makes of <<selectedItems, processedData,
\* selectedGroupsData>> once it has stored pre
setSelectedRecordsResult(pd, pre, sel, sgd) ==
    IF Len(pd) > 0
    THEN restoreSelection(pd, pre, sel, sgd)
    ELSE <<sel, pd, sgd>>

setSelectedRecords(records) ==
    LET pre == OrEmpty(records)
        restored == setSelectedRecordsResult(processedData, pre, selectedItems,
                                             selectedGroupsData)
    IN \E r \in {restored} :   \* the result, computed once
          /\ preSelectedRecords' = pre
          /\ selectedItems' = r[1]
          /\ processedData' = r[2]
          /\ selectedGroupsData' = r[3]
          /\ NoEmit
          /\ Ran("setSelectedRecords")
          /\ UNCHANGED <<groupBy, pickValues, tempSelectedItems, tempChosenItems,
                         isLoading, error>>

(***************************************************************************)
(* The two updates of selectedItems every handler is built from.           *)
(***************************************************************************)
\* the items are appended whether or not they are selected already
AddItemsUnfiltered(sel, items) == sel \o NameIds(items)

AddItemsFirstOnly(sel, items) ==
    LET absent == SelectSeq(items, LAMBDA item : ~SomeId(sel, item.id))
    IN sel \o NameIds(SubSeq(absent, 1, IF Len(absent) > 0 THEN 1 ELSE 0))

\* [...selectedItems, ...items.filter(not yet selected).map({name, id})]
AddItems(sel, items) ==
    sel \o NameIds(SelectSeq(items, LAMBDA item : ~SomeId(sel, item.id)))

RemoveIdsFirstOnly(sel, ids) ==
    SelectSeq(sel, LAMBDA item : ~(Len(ids) > 0 /\ item.id = ids[1]))

\* selectedItems.filter(item => !ids.includes(item.id))
RemoveIds(sel, ids) == SelectSeq(sel, LAMBDA item : ~Includes(ids, item.id))

\* the items keep their flags
SetFlagsKept(items, flag) == items

SetFlags(items, flag) == [i \in 1..Len(items) |-> [items[i] EXCEPT !.isSelected = flag]]

\* items.map(item => ids.includes(item.id) ? {...item, isSelected: flag} : item)
SetFlagsOf(items, ids, flag) ==
    [i \in 1..Len(items) |->
        IF Includes(ids, items[i].id) THEN [items[i] EXCEPT !.isSelected = flag] ELSE items[i]]

\* the forEach of moveSelectedToChosen, moveChosenToAvailable and removeItem:
\* flags of the ids set, isAllSelected = updatedItems.every(isSelected)
MarkData(pd, ids, flag) ==
    [g \in 1..Len(pd) |->
        LET updatedItems == SetFlagsOf(pd[g].items, ids, flag)
        IN [pd[g] EXCEPT !.items = updatedItems,
                         !.isAllSelected = EverySelected(updatedItems)]]

(***************************************************************************)
(* handleGroupSelect: the group checkbox.                                  *)
(***************************************************************************)
RECURSIVE GroupSelectFold(_, _, _, _, _, _)
\* the forEach over processedData; the result is <<updatedData, selectedItems>>
GroupSelectFold(pd, g, updatedData, sel, groupName, isChecked) ==
    IF g > Len(pd) THEN <<updatedData, sel>>
    ELSE IF pd[g].groupName = groupName
         THEN LET updatedItems == SetFlags(pd[g].items, isChecked)
                  newSel == IF isChecked
                            THEN AddItems(sel, updatedItems)
                            ELSE RemoveIds(sel, IdsOf(updatedItems))
                  group == [pd[g] EXCEPT !.items = updatedItems,
                                         !.isAllSelected = isChecked]
              IN GroupSelectFold(pd, g + 1, Append(updatedData, group), newSel,
                                 groupName, isChecked)
         ELSE GroupSelectFold(pd, g + 1, Append(updatedData, pd[g]), sel,
                              groupName, isChecked)

handleGroupSelect(groupName, isChecked) ==
    LET r == GroupSelectFold(processedData, 1, <<>>, selectedItems, groupName, isChecked)
    IN /\ processedData' = r[1]
       /\ selectedItems' = r[2]
       /\ selectedGroupsData' = updateSelectedGroupsData(r[1], r[2])
       /\ Emit(r[2])
       /\ Ran("selectGroup")
       /\ UNCHANGED <<groupBy, pickValues, preSelectedRecords, tempSelectedItems,
                      tempChosenItems, isLoading, error>>

(***************************************************************************)
(* handleItemSelect: the checkbox of an item of the available list.        *)
(***************************************************************************)
\* the toggle also dispatches the selection
handleItemSelectAndEmit(itemId, isChecked) ==
    /\ tempSelectedItems' =
          IF isChecked
          THEN IF ~Includes(tempSelectedItems, itemId)
               THEN Append(tempSelectedItems, itemId)
               ELSE tempSelectedItems
          ELSE SelectSeq(tempSelectedItems, LAMBDA id : id # itemId)
    /\ Emit(selectedItems)
    /\ Ran("toggleAvailable")
    /\ UNCHANGED <<groupBy, pickValues, preSelectedRecords, processedData,
                   selectedItems, selectedGroupsData, tempChosenItems, isLoading, error>>

handleItemSelect(itemId, isChecked) ==
    /\ tempSelectedItems' =
          IF isChecked
          THEN IF ~Includes(tempSelectedItems, itemId)
               THEN Append(tempSelectedItems, itemId)
               ELSE tempSelectedItems
          ELSE SelectSeq(tempSelectedItems, LAMBDA id : id # itemId)
    /\ NoEmit
    /\ Ran("toggleAvailable")
    /\ UNCHANGED <<groupBy, pickValues, preSelectedRecords, processedData,
                   selectedItems, selectedGroupsData, tempChosenItems, isLoading, error>>

(***************************************************************************)
(* moveSelectedToChosen: commit of the available-side register.            *)
(***************************************************************************)
RECURSIVE AllItems(_, _)
AllItems(pd, g) == IF g > Len(pd) THEN <<>> ELSE pd[g].items \o AllItems(pd, g + 1)

RECURSIVE IdToItemFold(_, _, _)
IdToItemFold(items, i, idToItem) ==
    IF i > Len(items) THEN idToItem
    ELSE IdToItemFold(items, i + 1, MapSet(idToItem, items[i].id, items[i]))

IdToItem(pd) == IdToItemFold(AllItems(pd, 1), 1, <<>>)

\* tempSelectedItems.map(id => idToItem.get(id)).filter(i => i && !existingIds.has(i.id))
ItemsToAdd(pd, sel, temp) ==
    LET idToItem == IdToItem(pd)
        known == SelectSeq(temp, LAMBDA id : MapHas(idToItem, id) /\ id \notin IdSet(sel))
    IN [i \in 1..Len(known) |-> NameId(MapGet(idToItem, known[i]))]

\* the new items are put in front of the selection
moveSelectedToChosenRunPrepend ==
    LET newSel == ItemsToAdd(processedData, selectedItems, tempSelectedItems) \o selectedItems
        updatedData == MarkData(processedData, tempSelectedItems, TRUE)
    IN /\ selectedItems' = newSel
       /\ processedData' = updatedData
       /\ tempSelectedItems' = <<>>
       /\ selectedGroupsData' = updateSelectedGroupsData(updatedData, newSel)
       /\ Emit(newSel)
       /\ UNCHANGED <<groupBy, pickValues, preSelectedRecords, tempChosenItems,
                      isLoading, error>>

moveSelectedToChosenRun ==
    LET newSel == selectedItems \o ItemsToAdd(processedData, selectedItems, tempSelectedItems)
        updatedData == MarkData(processedData, tempSelectedItems, TRUE)
    IN /\ selectedItems' = newSel
       /\ processedData' = updatedData
       /\ tempSelectedItems' = <<>>
       /\ selectedGroupsData' = updateSelectedGroupsData(updatedData, newSel)
       /\ Emit(newSel)
       /\ UNCHANGED <<groupBy, pickValues, preSelectedRecords, tempChosenItems,
                      isLoading, error>>

\* no early return: the commit runs on an empty register too
moveSelectedToChosenAlways ==
    /\ Ran("commitToChosen")
    /\ moveSelectedToChosenRun

moveSelectedToChosen ==
    /\ Ran("commitToChosen")
    /\ IF Len(tempSelectedItems) = 0
       THEN /\ NoEmit
            /\ UNCHANGED <<groupBy, pickValues, preSelectedRecords, processedData,
                           selectedItems, selectedGroupsData, tempSelectedItems,
                           tempChosenItems, isLoading, error>>
       ELSE moveSelectedToChosenRun

(***************************************************************************)
(* moveChosenToAvailable: commit of the chosen-side register.              *)
(***************************************************************************)
moveChosenToAvailableRun ==
    LET newSel == RemoveIds(selectedItems, tempChosenItems)
        updatedData == MarkData(processedData, tempChosenItems, FALSE)
    IN /\ selectedItems' = newSel
       /\ processedData' = updatedData
       /\ tempChosenItems' = <<>>
       /\ selectedGroupsData' = updateSelectedGroupsData(updatedData, newSel)
       /\ Emit(newSel)
       /\ UNCHANGED <<groupBy, pickValues, preSelectedRecords, tempSelectedItems,
                      isLoading, error>>

moveChosenToAvailable ==
    /\ Ran("commitToAvailable")
    /\ IF Len(tempChosenItems) = 0
       THEN /\ NoEmit
            /\ UNCHANGED <<groupBy, pickValues, preSelectedRecords, processedData,
                           selectedItems, selectedGroupsData, tempSelectedItems,
                           tempChosenItems, isLoading, error>>
       ELSE moveChosenToAvailableRun

(***************************************************************************)
(* selectChosenItem: click on an item of the chosen list.                  *)
(***************************************************************************)
selectChosenItem(itemId) ==
    /\ tempChosenItems' =
          IF Includes(tempChosenItems, itemId)
          THEN SelectSeq(tempChosenItems, LAMBDA id : id # itemId)
          ELSE Append(tempChosenItems, itemId)
    /\ NoEmit
    /\ Ran("toggleChosen")
    /\ UNCHANGED <<groupBy, pickValues, preSelectedRecords, processedData,
                   selectedItems, selectedGroupsData, tempSelectedItems, isLoading, error>>

(***************************************************************************)
(* removeItem / removeGroup: the remove buttons of the chosen list.        *)
(***************************************************************************)
removeItem(itemIdToRemove) ==
    LET newSel == RemoveIds(selectedItems, <<itemIdToRemove>>)
        updatedData == MarkData(processedData, <<itemIdToRemove>>, FALSE)
    IN /\ selectedItems' = newSel
       /\ processedData' = updatedData
       /\ selectedGroupsData' = updateSelectedGroupsData(updatedData, newSel)
       /\ Emit(newSel)
       /\ Ran("removeItem")
       /\ UNCHANGED <<groupBy, pickValues, preSelectedRecords, tempSelectedItems,
                      tempChosenItems, isLoading, error>>

RECURSIVE RemoveGroupFold(_, _, _, _, _)
RemoveGroupFold(pd, g, updatedData, sel, groupToRemove) ==
    IF g > Len(pd) THEN <<updatedData, sel>>
    ELSE IF pd[g].groupName = groupToRemove
         THEN LET group == [pd[g] EXCEPT !.items = SetFlags(pd[g].items, FALSE),
                                         !.isAllSelected = FALSE]
              IN RemoveGroupFold(pd, g + 1, Append(updatedData, group),
                                 RemoveIds(sel, IdsOf(pd[g].items)), groupToRemove)
         ELSE RemoveGroupFold(pd, g + 1, Append(updatedData, pd[g]), sel, groupToRemove)

removeGroup(groupToRemove) ==
    LET r == RemoveGroupFold(processedData, 1, <<>>, selectedItems, groupToRemove)
    IN /\ processedData' = r[1]
       /\ selectedItems' = r[2]
       /\ selectedGroupsData' = updateSelectedGroupsData(r[1], r[2])
       /\ Emit(r[2])
       /\ Ran("removeGroup")
       /\ UNCHANGED <<groupBy, pickValues, preSelectedRecords, tempSelectedItems,
                      tempChosenItems, isLoading, error>>

(***************************************************************************)
(* getSelectedRecords (its return value) / resetSelections                  *)
(***************************************************************************)
getSelectedRecordsResult == selectedItems

\* the read hands back a copy of selectedItems and also empties the selection
getSelectedRecordsAndClear ==
    /\ selectedItems' = <<>>
    /\ NoEmit
    /\ RanReturning("getSelectedRecords", wired, Result(getSelectedRecordsResult))
    /\ UNCHANGED <<groupBy, pickValues, preSelectedRecords, processedData,
                   selectedGroupsData, tempSelectedItems, tempChosenItems,
                   isLoading, error>>

getSelectedRecords ==
    /\ NoEmit
    /\ RanReturning("getSelectedRecords", wired, Result(getSelectedRecordsResult))
    /\ UNCHANGED <<groupBy, pickValues, preSelectedRecords, processedData,
                   selectedItems, selectedGroupsData, tempSelectedItems,
                   tempChosenItems, isLoading, error>>

\* the queued pre-selection survives the reset
resetSelectionsKeepQueue ==
    /\ selectedItems' = <<>>
    /\ selectedGroupsData' = <<>>
    /\ tempSelectedItems' = <<>>
    /\ tempChosenItems' = <<>>
    /\ processedData' = [g \in 1..Len(processedData) |->
            [processedData[g] EXCEPT !.isAllSelected = FALSE,
                                     !.items = SetFlags(processedData[g].items, FALSE)]]
    /\ Emit(<<>>)
    /\ Ran("reset")
    /\ UNCHANGED <<groupBy, pickValues, preSelectedRecords, isLoading, error>>

resetSelections ==
    /\ selectedItems' = <<>>
    /\ selectedGroupsData' = <<>>
    /\ tempSelectedItems' = <<>>
    /\ tempChosenItems' = <<>>
    /\ preSelectedRecords' = <<>>
    /\ processedData' = [g \in 1..Len(processedData) |->
            [processedData[g] EXCEPT !.isAllSelected = FALSE,
                                     !.items = SetFlags(processedData[g].items, FALSE)]]
    /\ Emit(<<>>)
    /\ Ran("reset")
    /\ UNCHANGED <<groupBy, pickValues, isLoading, error>>

(***************************************************************************)
(* availableCount: the getter behind the counter of the available list.    *)
(***************************************************************************)
RECURSIVE AvailableCountFold(_, _, _)
AvailableCountFold(pd, g, count) ==
    IF g > Len(pd) THEN count
    ELSE AvailableCountFold(pd, g + 1,
             count + Len(SelectSeq(pd[g].items, LAMBDA item : ~item.isSelected)))

availableCount == AvailableCountFold(processedData, 1, 0)

(***************************************************************************)
(* What the rendered lists offer to the user: a checkbox per available     *)
(* group and item, a row with a remove button per chosen group and item.   *)
(***************************************************************************)
LoadedGroups == {processedData[g].groupName : g \in 1..Len(processedData)}
LoadedIds == IdSet(AllItems(processedData, 1))
ChosenGroupNames == {selectedGroupsData[g].groupName : g \in 1..Len(selectedGroupsData)}
ChosenIds == UNION {IdSet(selectedGroupsData[g].items) : g \in 1..Len(selectedGroupsData)}

Next ==
    \/ \E data \in DataSets : wiredDataLoaded(data)
    \/ wiredDataError
    \/ wiredDataPending
    \/ \E value \in PreArgs : setSelectedRecordsProp(value)
    \/ \E records \in PreArgs : setSelectedRecords(records)
    \/ \E g \in LoadedGroups, c \in BOOLEAN : handleGroupSelect(g, c)
    \/ \E id \in LoadedIds, c \in BOOLEAN : handleItemSelect(id, c)
    \/ moveSelectedToChosen
    \/ moveChosenToAvailable
    \/ \E id \in ChosenIds : selectChosenItem(id)
    \/ \E id \in ChosenIds : removeItem(id)
    \/ \E g \in ChosenGroupNames : removeGroup(g)
    \/ resetSelections

Spec == Init /\ [][Next]_vars
SpecCommit == InitCommit /\ [][Next]_vars
SpecImmediate == InitImmediate /\ [][Next]_vars
SpecRestore == InitRestore /\ [][Next]_vars
SpecLifecycle == InitLifecycle /\ [][Next]_vars
SpecSinceReset == InitSinceReset /\ [][Next]_vars

\* the parent's reads next to the operations: a read changes no field, so the
\* other specifications leave it out
NextRead == Next \/ getSelectedRecords
SpecRead == InitRead /\ [][NextRead]_vars

\* the first delivery of the wire adapter, on any rows
firstLoad(data) == isLoading /\ wiredDataLoaded(data)
NextGrouping == \E data \in GroupingDataSets : firstLoad(data)
SpecGrouping == InitGrouping /\ [][NextGrouping]_vars

(***************************************************************************)
(* Vocabulary of the properties.                                           *)
(***************************************************************************)
SelectionSet == IdsOf(selectedItems)
Selected(id) == SomeId(selectedItems, id)
GroupIds(pd, groupName) ==
    UNION {IdSet(pd[g].items) : g \in {h \in 1..Len(pd) : pd[h].groupName = groupName}}
AllSelectedOf(pd, groupName) ==
    \A g \in 1..Len(pd) : pd[g].groupName = groupName => pd[g].isAllSelected
NoneAllSelectedOf(pd, groupName) ==
    \A g \in 1..Len(pd) : pd[g].groupName = groupName => ~pd[g].isAllSelected
\* a is b with some elements left out, the others in b's order
IsSubsequence(a, b) ==
    \E f \in [1..Len(a) -> 1..Len(b)] :
        /\ \A i, j \in 1..Len(a) : i < j => f[i] < f[j]
        /\ \A i \in 1..Len(a) : a[i] = b[f[i]]
Distinct(s) == \A i, j \in 1..Len(s) : i # j => s[i] # s[j]

(***************************************************************************)
(* C1: in every state, a group's allSelected flag is true exactly when the *)
(* group is non-empty and every member id is in the selection.             *)
(***************************************************************************)
C1_AllSelectedIffAllMembersSelected ==
    \A g \in 1..Len(processedData) :
        processedData[g].isAllSelected <=>
            /\ Len(processedData[g].items) > 0
            /\ \A i \in 1..Len(processedData[g].items) :
                  Selected(processedData[g].items[i].id)

(***************************************************************************)
(* C2: in every state, the chosen groups are the selection partitioned by  *)
(* group: one entry per loaded group that has a selected member, holding   *)
(* exactly that group's selected ids, and no entry is empty or names a     *)
(* group that is not loaded.                                               *)
(***************************************************************************)
C2_ChosenGroupsPartitionSelection ==
    /\ \A c \in 1..Len(selectedGroupsData) :
          /\ Len(selectedGroupsData[c].items) > 0
          /\ selectedGroupsData[c].groupName \in LoadedGroups
          /\ IdSet(selectedGroupsData[c].items) =
                GroupIds(processedData, selectedGroupsData[c].groupName)
                   \cap IdSet(selectedItems)
          /\ \A d \in 1..Len(selectedGroupsData) :
                selectedGroupsData[d].groupName = selectedGroupsData[c].groupName => d = c
    /\ \A name \in LoadedGroups :
          GroupIds(processedData, name) \cap IdSet(selectedItems) # {}
             => name \in ChosenGroupNames

(***************************************************************************)
(* C3: in every state, no id occurs twice in the selection.                *)
(***************************************************************************)
C3_SelectionHasNoDuplicates == Distinct(SelectionSet)

(***************************************************************************)
(* C4: a commitToChosen with a non-empty available-side register puts      *)
(* every staged id into the selection, appends the staged ids that were    *)
(* absent in staging order after the previous content, and empties the     *)
(* register.                                                               *)
(***************************************************************************)
C4_CommitToChosenSelectsEveryStagedId ==
    [][(moveSelectedToChosen /\ Len(tempSelectedItems) > 0) =>
          /\ \A i \in 1..Len(tempSelectedItems) :
                tempSelectedItems[i] \in IdSet(selectedItems')
          /\ IdsOf(selectedItems') =
                SelectionSet \o SelectSeq(tempSelectedItems, LAMBDA id : ~Selected(id))
          /\ tempSelectedItems' = <<>>]_vars

(***************************************************************************)
(* C5: a commitToAvailable with a non-empty chosen-side register leaves no *)
(* staged id in the selection, keeps every other selected id in its        *)
(* previous relative order, and empties the register.                      *)
(***************************************************************************)
C5_CommitToAvailableRemovesStagedIds ==
    [][(moveChosenToAvailable /\ Len(tempChosenItems) > 0) =>
          /\ \A i \in 1..Len(tempChosenItems) :
                tempChosenItems[i] \notin IdSet(selectedItems')
          /\ \A i \in 1..Len(selectedItems) :
                ~Includes(tempChosenItems, selectedItems[i].id)
                   => selectedItems[i].id \in IdSet(selectedItems')
          /\ IsSubsequence(selectedItems', selectedItems)
          /\ Len(selectedItems') =
                Cardinality({i \in 1..Len(selectedItems) :
                                ~Includes(tempChosenItems, selectedItems[i].id)})
          /\ tempChosenItems' = <<>>]_vars

\* a commit of a non-empty chosen-side register has run and left ids selected
C5_Witness ==
    /\ lastOp = "commitToAvailable"
    /\ Len(emitted) = 1
    /\ tempChosenItems = <<>>
    /\ Len(selectedItems) > 0

(***************************************************************************)
(* C6: when a commit, a reset or a data load completes, both staging       *)
(* registers are empty.                                                    *)
(***************************************************************************)
C6_RegistersEmptyAfterMoveResetReload ==
    [][(\/ moveSelectedToChosen /\ Len(tempSelectedItems) > 0
        \/ moveChosenToAvailable /\ Len(tempChosenItems) > 0
        \/ resetSelections
        \/ \E data \in DataSets : wiredDataLoaded(data))
          => (tempSelectedItems' = <<>> /\ tempChosenItems' = <<>>)]_vars

(***************************************************************************)
(* C7: the handlers that emit, and what they emit.                         *)
(***************************************************************************)
EmitsSelection ==
    /\ Len(emitted') = 1
    /\ IdsOf(emitted'[1]) = IdsOf(selectedItems')
    /\ \A i \in 1..Len(selectedItems') : emitted'[1][i] = NameId(selectedItems'[i])

ImmediateOrReset ==
    \/ \E g \in LoadedGroups, c \in BOOLEAN : handleGroupSelect(g, c)
    \/ \E id \in ChosenIds : removeItem(id)
    \/ \E g \in ChosenGroupNames : removeGroup(g)
    \/ resetSelections

StagingToggle ==
    \/ \E id \in LoadedIds, c \in BOOLEAN : handleItemSelect(id, c)
    \/ \E id \in ChosenIds : selectChosenItem(id)

\* C7 as claimed: every invocation of commitToChosen, commitToAvailable,
\* selectGroup, removeItem, removeGroup and reset emits exactly one notification
\* that carries the selection as it is after the operation; a staging toggle
\* emits none.
C7_EveryInvocationEmitsOnce ==
    [][/\ (moveSelectedToChosen \/ moveChosenToAvailable \/ ImmediateOrReset)
              => EmitsSelection
       /\ StagingToggle => emitted' = <<>>]_vars

\* C7 as amended: every invocation of selectGroup, removeItem, removeGroup and
\* reset, and every commit whose staging register is non-empty, emits exactly one
\* notification that carries the selection as it is after the operation; a
\* staging toggle and a commit on an empty register emit none.
C7_EveryEffectiveInvocationEmitsOnce ==
    [][/\ (\/ moveSelectedToChosen /\ Len(tempSelectedItems) > 0
           \/ moveChosenToAvailable /\ Len(tempChosenItems) > 0
           \/ ImmediateOrReset) => EmitsSelection
       /\ (\/ StagingToggle
           \/ moveSelectedToChosen /\ Len(tempSelectedItems) = 0
           \/ moveChosenToAvailable /\ Len(tempChosenItems) = 0) => emitted' = <<>>]_vars

\* a commit of a non-empty available-side register has run and emitted the
\* selection it produced
C7_Witness ==
    /\ lastOp = "commitToChosen"
    /\ Len(selectedItems) > 1
    /\ emitted = <<selectedItems>>

(***************************************************************************)
(* C8: every operation after which the ordered content of the selection    *)
(* differs from before emits a notification whose payload is what          *)
(* getSelectedRecords() then returns.                                      *)
(***************************************************************************)
C8_EveryChangeOfSelectionIsNotified ==
    [][selectedItems' # selectedItems =>
          /\ Len(emitted') > 0
          /\ emitted'[Len(emitted')] = getSelectedRecordsResult']_vars

(***************************************************************************)
(* C9: selectGroup(g, checked) acts on the selection at once: checked, all *)
(* ids of g are selected and g is allSelected; unchecked, no id of g is    *)
(* selected and g is not allSelected; both registers and the membership of *)
(* every id outside g are unchanged.                                       *)
(***************************************************************************)
C9_SelectGroupBypassesStaging ==
    [][\A g \in LoadedGroups, c \in BOOLEAN :
          handleGroupSelect(g, c) =>
             /\ c => /\ GroupIds(processedData, g) \subseteq IdSet(selectedItems')
                     /\ AllSelectedOf(processedData', g)
             /\ ~c => /\ GroupIds(processedData, g) \cap IdSet(selectedItems') = {}
                      /\ NoneAllSelectedOf(processedData', g)
             /\ GroupIds(processedData', g) = GroupIds(processedData, g)
             /\ UNCHANGED <<tempSelectedItems, tempChosenItems>>
             /\ \A id \in (IdSet(selectedItems) \cup IdSet(selectedItems'))
                              \ GroupIds(processedData, g) :
                   id \in IdSet(selectedItems) /\ id \in IdSet(selectedItems')]_vars

\* selectGroup has selected a whole group of two items while ids were staged
C9_Witness ==
    /\ lastOp = "selectGroup"
    /\ \E g \in 1..Len(processedData) :
          /\ processedData[g].isAllSelected
          /\ Len(processedData[g].items) > 1
          /\ IdSet(processedData[g].items) \subseteq IdSet(selectedItems)
    /\ Len(tempSelectedItems) > 0

(***************************************************************************)
(* C10: after removeItem(id), id is neither in the selection nor in the    *)
(* chosen-side register, and every other id of the two is kept.            *)
(***************************************************************************)
C10_RemoveItemDropsIdEverywhere ==
    [][\A id \in ChosenIds :
          removeItem(id) =>
             /\ id \notin IdSet(selectedItems')
             /\ ~Includes(tempChosenItems', id)
             /\ IdSet(selectedItems') = IdSet(selectedItems) \ {id}
             /\ \A i \in 1..Len(tempChosenItems) :
                   tempChosenItems[i] # id => Includes(tempChosenItems', tempChosenItems[i])]_vars

(***************************************************************************)
(* C11: after removeGroup(g) no id of g is selected, the chosen side has   *)
(* no entry for g, g is not allSelected, and the selection is the previous *)
(* one with the ids of g left out, the others in their previous order.     *)
(***************************************************************************)
C11_RemoveGroupDropsGroupKeepsOthers ==
    [][\A g \in ChosenGroupNames :
          (lastOp' = "removeGroup" /\ removeGroup(g)) =>
             /\ GroupIds(processedData, g) \cap IdSet(selectedItems') = {}
             /\ g \notin {selectedGroupsData'[h].groupName : h \in 1..Len(selectedGroupsData')}
             /\ NoneAllSelectedOf(processedData', g)
             /\ GroupIds(processedData', g) = GroupIds(processedData, g)
             /\ selectedItems' = SelectSeq(selectedItems,
                    LAMBDA item : item.id \notin GroupIds(processedData, g))]_vars

\* removeGroup has removed one of two groups and ids of the other one stay selected
C11_Witness ==
    /\ lastOp = "removeGroup"
    /\ Len(processedData) > 1
    /\ \E g \in 1..Len(processedData) :
          IdSet(processedData[g].items) \cap IdSet(selectedItems) = {}
    /\ Len(selectedGroupsData) > 0

\* sgd is the chosen-side view of groups pd under selection sel: the groups with
\* a selected item, in the groups' order, each with its selected items in the
\* group's order
ChosenViewOf(pd, sel, sgd) ==
    LET withSelected == SelectSeq(pd, LAMBDA grp : IdSet(grp.items) \cap IdSet(sel) # {})
    IN /\ Len(sgd) = Len(withSelected)
       /\ \A c \in 1..Len(sgd) :
             /\ sgd[c].groupName = withSelected[c].groupName
             /\ IdsOf(sgd[c].items) =
                   IdsOf(SelectSeq(withSelected[c].items, LAMBDA item : item.id \in IdSet(sel)))
\* every item flag and every allSelected flag of pd is the one selection sel gives
FlagsOf(pd, sel) ==
    \A g \in 1..Len(pd) :
        /\ \A i \in 1..Len(pd[g].items) :
              pd[g].items[i].isSelected <=> pd[g].items[i].id \in IdSet(sel)
        /\ pd[g].isAllSelected <=>
              (Len(pd[g].items) > 0 /\ IdSet(pd[g].items) \subseteq IdSet(sel))
NonEmptyArgs == {x \in PreArgs : x.defined /\ Len(x.value) > 0}

(***************************************************************************)
(* C12: setSelectedRecords(X) with a non-empty X on a loaded grouping      *)
(* makes the selection the ids of X in X's order, whatever was selected    *)
(* before, and the item flags, the allSelected flags and the chosen groups *)
(* are the ones that selection gives.                                      *)
(***************************************************************************)
C12_SetSelectedRecordsReplacesSelection ==
    [][(lastOp' = "setSelectedRecords" /\ Len(processedData) > 0) =>
          \A X \in NonEmptyArgs :
             setSelectedRecords(X) =>
                /\ IdsOf(selectedItems') = IdsOf(X.value)
                /\ FlagsOf(processedData', selectedItems')
                /\ ChosenViewOf(processedData', selectedItems', selectedGroupsData')
                /\ [g \in 1..Len(processedData') |-> IdsOf(processedData'[g].items)]
                      = [g \in 1..Len(processedData) |-> IdsOf(processedData[g].items)]]_vars

\* setSelectedRecords has selected one of two loaded ids
C12_Witness ==
    /\ lastOp = "setSelectedRecords"
    /\ Len(processedData) > 0
    /\ Len(selectedItems) > 0
    /\ IdsOf(selectedItems) = IdsOf(preSelectedRecords)
    /\ \E id \in LoadedIds : id \in IdSet(selectedItems)
    /\ \E id \in LoadedIds : id \notin IdSet(selectedItems)
    /\ Len(selectedGroupsData) > 0

\* the Ids of the rows that have one
RowIds(data) == {data[i].Id : i \in {j \in 1..Len(data) : Truthy(data[j].Id)}}

(***************************************************************************)
(* C13: setSelectedRecords(X) while no grouping is loaded leaves the       *)
(* selection as it is and keeps X; a load of rows whose ids match the      *)
(* kept X then makes getSelectedRecords() return the ids of X in X's       *)
(* order.                                                                  *)
(***************************************************************************)
C13_QueuedPreSelectionRoundTrip ==
    [][/\ Len(processedData) = 0 =>
             \A X \in NonEmptyArgs :
                setSelectedRecords(X) =>
                   /\ selectedItems' = selectedItems
                   /\ preSelectedRecords' = X.value
       /\ (lastOp' = "load" /\ Len(preSelectedRecords) > 0) =>
             \A data \in DataSets :
                (/\ wired' = data
                 /\ IdSet(preSelectedRecords) \subseteq RowIds(data)
                 /\ wiredDataLoaded(data)) =>
                   /\ IdsOf(getSelectedRecordsResult') = IdsOf(preSelectedRecords)
                   /\ preSelectedRecords' = preSelectedRecords]_vars

\* the first load has applied a pre-selection of two ids queued before it, in
\* the order of the pre-selection and not of the rows
C13_Witness ==
    /\ lastOp = "load"
    /\ IdsOf(preSelectedRecords) = <<IdStr[2], IdStr[1]>>
    /\ IdsOf(getSelectedRecordsResult) = IdsOf(preSelectedRecords)
    /\ IdSet(preSelectedRecords) \subseteq LoadedIds
    /\ tempSelectedItems = <<>>
    /\ tempChosenItems = <<>>

\* the state a component is in when setSelectedRecords(X), X non-empty, was
\* called on it before the wire adapter delivered anything
QueuedBeforeFirstLoad ==
    /\ isLoading
    /\ error = NoVal
    /\ Len(preSelectedRecords) > 0
    /\ processedData = <<>>
    /\ selectedItems = <<>>
    /\ selectedGroupsData = <<>>
    /\ tempSelectedItems = <<>>
    /\ tempChosenItems = <<>>
\* <<selectedItems, processedData, selectedGroupsData>> when the rows are loaded
\* into a new component first and setSelectedRecords(X) is called after
LoadThenSet(data, X) ==
    setSelectedRecordsResult(processQueryResults(data, groupBy, pickValues), X, <<>>, <<>>)

(***************************************************************************)
(* C14: from the initial state, setSelectedRecords(X) followed by the load *)
(* of rows R gives the same selection, the same groups with the same flags *)
(* and the same chosen groups as the load of R followed by                 *)
(* setSelectedRecords(X), for every non-empty X and every R, the R that    *)
(* gives no group included.                                                *)
(***************************************************************************)
C14_SetBeforeOrAfterLoadAgree ==
    [][(lastOp' = "load" /\ QueuedBeforeFirstLoad) =>
          \A data \in DataSets :
             (wired' = data /\ wiredDataLoaded(data)) =>
                /\ IdsOf(selectedItems') = IdsOf(LoadThenSet(data, preSelectedRecords)[1])
                /\ processedData' = LoadThenSet(data, preSelectedRecords)[2]
                /\ selectedGroupsData' = LoadThenSet(data, preSelectedRecords)[3]]_vars

(***************************************************************************)
(* C15: resetSelections() from any state leaves an empty selection, no     *)
(* chosen group, two empty registers, every group not allSelected and      *)
(* every item not selected, and emits one notification whose payload is    *)
(* the empty list, whether or not anything was selected.                   *)
(***************************************************************************)
C15_ResetClearsEverythingAndNotifies ==
    [][(lastOp' = "reset" /\ resetSelections) =>
          /\ selectedItems' = <<>>
          /\ selectedGroupsData' = <<>>
          /\ tempSelectedItems' = <<>>
          /\ tempChosenItems' = <<>>
          /\ Len(processedData') = Len(processedData)
          /\ \A g \in 1..Len(processedData') :
                /\ ~processedData'[g].isAllSelected
                /\ processedData'[g].groupName = processedData[g].groupName
                /\ IdsOf(processedData'[g].items) = IdsOf(processedData[g].items)
                /\ \A i \in 1..Len(processedData'[g].items) :
                      ~processedData'[g].items[i].isSelected
          /\ emitted' = << <<>> >>]_vars

\* resetSelections has run on loaded groups
C15_Witness ==
    /\ lastOp = "reset"
    /\ Len(processedData) > 1
    /\ selectedItems = <<>>
    /\ emitted = << <<>> >>

(***************************************************************************)
(* C16: when the wire adapter reports a failure, the failure is stored in  *)
(* the error field, loading is over, no group is computed from that call,  *)
(* no notification is emitted and the selection is exactly as it was.      *)
(***************************************************************************)
C16_FetchFailureKeepsSelection ==
    [][(lastOp' = "loadError" /\ wiredDataError) =>
          /\ Truthy(error')
          /\ isLoading' = FALSE
          /\ processedData' = <<>>
          /\ emitted' = <<>>
          /\ selectedItems' = selectedItems]_vars

\* a failure has been reported while ids were selected
C16_Witness ==
    /\ lastOp = "loadError"
    /\ Truthy(error)
    /\ ~isLoading
    /\ Len(selectedItems) > 0
    /\ processedData = <<>>

\* the item of id in groups pd is flagged selected
ShownSelected(pd, id) ==
    \E g \in 1..Len(pd) : \E i \in 1..Len(pd[g].items) :
        pd[g].items[i].id = id /\ pd[g].items[i].isSelected

HasId(data) == SelectSeq(data, LAMBDA record : Truthy(record.Id))
\* the group key of a record: the value of its group field, missing if the
\* record has none or no group field is configured
GroupKey(record) == IF Truthy(groupBy) THEN Field(record, groupBy) ELSE NoVal
KeyOrUnassigned(record) == Or(GroupKey(record), "Unassigned")
KeyOrUnassignedOrDefault(record) ==
    IF Truthy(groupBy) THEN Or(GroupKey(record), "Unassigned") ELSE "Default Group"
FirstAt(rows, NameOf(_), name) ==
    CHOOSE i \in 1..Len(rows) :
        NameOf(rows[i]) = name /\ \A j \in 1..(i - 1) : NameOf(rows[j]) # name
\* groups pd are rows grouped under NameOf: one group per name in first-seen
\* order, in each group the rows of that name in the rows' order, every row in
\* one group, nothing selected
GroupedBy(pd, rows, NameOf(_)) ==
    /\ {pd[g].groupName : g \in 1..Len(pd)} = {NameOf(rows[i]) : i \in 1..Len(rows)}
    /\ \A g, h \in 1..Len(pd) :
          g < h => /\ pd[g].groupName # pd[h].groupName
                   /\ FirstAt(rows, NameOf, pd[g].groupName)
                         < FirstAt(rows, NameOf, pd[h].groupName)
    /\ \A g \in 1..Len(pd) :
          LET members == SelectSeq(rows, LAMBDA record : NameOf(record) = pd[g].groupName)
          IN /\ IdsOf(pd[g].items) = [i \in 1..Len(members) |-> members[i].Id]
             /\ ~pd[g].isAllSelected
             /\ \A i \in 1..Len(pd[g].items) : ~pd[g].items[i].isSelected

(***************************************************************************)
(* C18, as claimed: after a load of any rows, the groups are the rows that *)
(* have an id grouped by their group key, a missing key counting as        *)
(* "Unassigned": groups in first-seen order, items in input order, every   *)
(* row with an id in exactly one group, rows without id dropped, nothing   *)
(* selected.                                                               *)
(***************************************************************************)
C18_LoadGroupsByKeyOrUnassigned ==
    lastOp = "load" => GroupedBy(processedData, HasId(wired), KeyOrUnassigned)

(***************************************************************************)
(* C18, amended: the same, where the records go to the one group "Default  *)
(* Group" when no group field is configured, and a missing key counts as   *)
(* "Unassigned" when one is.                                               *)
(***************************************************************************)
C18_LoadGroupsByKeyOrUnassignedOrDefault ==
    lastOp = "load" => GroupedBy(processedData, HasId(wired), KeyOrUnassignedOrDefault)

\* three rows were loaded with a group field configured: one without id, two
\* of different groups, the first one without a group key
C18_Witness ==
    /\ lastOp = "load"
    /\ groupBy = "Cat"
    /\ Len(wired) = MaxRows
    /\ Len(HasId(wired)) = 2
    /\ Len(processedData) = 2
    /\ processedData[1].groupName = "Unassigned"

(***************************************************************************)
(* C19: after a load of any rows, no id occurs in two groups or twice in   *)
(* one group.                                                              *)
(***************************************************************************)
C19_ItemIdsUniqueAcrossGroups ==
    Distinct(IdsOf(AllItems(processedData, 1)))

(***************************************************************************)
(* C20: every item the grouping produces has a defined label, with or      *)
(* without a display field configured.                                     *)
(***************************************************************************)
C20_EveryItemHasDefinedLabel ==
    \A g \in 1..Len(processedData) :
        \A i \in 1..Len(processedData[g].items) :
            Truthy(processedData[g].items[i].name)

\* the ids of a register / of a group that the selection holds
AllSelectedIn(ids) == \A i \in 1..Len(ids) : ids[i] \in IdSet(selectedItems)
NoneSelectedIn(ids) == \A i \in 1..Len(ids) : ids[i] \notin IdSet(selectedItems)

(***************************************************************************)
(* C21: adding ids that are all selected already (commitToChosen of a      *)
(* register of selected ids, selectGroup(g, true) on a group whose ids are *)
(* all selected) and removing ids of which none is selected                *)
(* (commitToAvailable, removeItem, removeGroup, selectGroup(g, false))     *)
(* leave the selection as it is, size and order.                           *)
(***************************************************************************)
C21_AddPresentRemoveAbsentAreNoOps ==
    [][/\ lastOp' = "selectGroup" =>
             \A g \in LoadedGroups, c \in BOOLEAN :
                (/\ c => GroupIds(processedData, g) \subseteq IdSet(selectedItems)
                 /\ ~c => GroupIds(processedData, g) \cap IdSet(selectedItems) = {}
                 /\ handleGroupSelect(g, c)) =>
                   selectedItems' = selectedItems
       /\ lastOp' = "removeGroup" =>
             \A g \in ChosenGroupNames :
                (/\ GroupIds(processedData, g) \cap IdSet(selectedItems) = {}
                 /\ removeGroup(g)) =>
                   selectedItems' = selectedItems
       /\ lastOp' = "removeItem" =>
             \A id \in ChosenIds :
                (id \notin IdSet(selectedItems) /\ removeItem(id)) =>
                   selectedItems' = selectedItems
       /\ (lastOp' = "other" /\ emitted' # <<>>) =>
             /\ (/\ Len(tempSelectedItems) > 0
                 /\ AllSelectedIn(tempSelectedItems)
                 /\ moveSelectedToChosen) =>
                   selectedItems' = selectedItems
             /\ (/\ Len(tempChosenItems) > 0
                 /\ NoneSelectedIn(tempChosenItems)
                 /\ moveChosenToAvailable) =>
                   selectedItems' = selectedItems]_vars

\* selectGroup has run on a group of two ids while two ids were selected, and
\* the selection still holds each id once, the second of the group first
C21_Witness ==
    /\ lastOp = "selectGroup"
    /\ \E g \in 1..Len(processedData) :
          /\ IdsOf(processedData[g].items) = <<IdStr[1], IdStr[2]>>
          /\ processedData[g].isAllSelected
    /\ SelectionSet = <<IdStr[2], IdStr[1]>>

\* selection after is selection before with some ids left out, the others in
\* their order, followed by ids that were not in it
OrderKept(before, after) ==
    LET kept == SelectSeq(after, LAMBDA id : Includes(before, id))
        added == SelectSeq(after, LAMBDA id : ~Includes(before, id))
    IN /\ after = kept \o added
       /\ IsSubsequence(kept, before)

(***************************************************************************)
(* C22: every operation that is neither a restoration nor reset keeps the  *)
(* relative order of the ids that are selected before and after it, and    *)
(* places the ids it adds after all the ids that were selected already.    *)
(***************************************************************************)
C22_InsertionOrderIsPreserved ==
    [][selectedItems' # selectedItems =>
          /\ \A g \in LoadedGroups, c \in BOOLEAN :
                handleGroupSelect(g, c) => OrderKept(SelectionSet, SelectionSet')
          /\ moveSelectedToChosen => OrderKept(SelectionSet, SelectionSet')
          /\ moveChosenToAvailable => OrderKept(SelectionSet, SelectionSet')
          /\ \A id \in ChosenIds : removeItem(id) => OrderKept(SelectionSet, SelectionSet')
          /\ \A g \in ChosenGroupNames :
                removeGroup(g) => OrderKept(SelectionSet, SelectionSet')
          /\ \A id \in LoadedIds, c \in BOOLEAN : ~handleItemSelect(id, c)
          /\ \A id \in ChosenIds : ~selectChosenItem(id)
          /\ ~wiredDataError
          /\ ~wiredDataPending
          /\ ~(Len(preSelectedRecords) = 0 /\ wiredDataLoaded(wired'))]_vars

\* two commits have selected the second id and then the first one
C22_Witness ==
    /\ lastOp = "commitToChosen"
    /\ emitted = <<EventDetail(selectedItems)>>
    /\ SelectionSet = <<IdStr[2], IdStr[1]>>
    /\ IdsOf(AllItems(processedData, 1)) = <<IdStr[1], IdStr[2]>>
    /\ preSelectedRecords = <<>>

(***************************************************************************)
(* C23: toggleAvailable(id) changes the available-side register only and   *)
(* toggleChosen(id) the chosen-side register only: the selection, every    *)
(* item and allSelected flag, the chosen groups and the other register are *)
(* unchanged and no notification is emitted.                               *)
(***************************************************************************)
C23_StagingTogglesTouchOnlyTheirRegister ==
    [][/\ \A id \in LoadedIds, c \in BOOLEAN :
             handleItemSelect(id, c) =>
                /\ UNCHANGED <<selectedItems, processedData, selectedGroupsData,
                               tempChosenItems>>
                /\ emitted' = <<>>
                /\ \A other \in Ids \ {id} :
                      Includes(tempSelectedItems', other) <=> Includes(tempSelectedItems, other)
       /\ \A id \in ChosenIds :
             selectChosenItem(id) =>
                /\ UNCHANGED <<selectedItems, processedData, selectedGroupsData,
                               tempSelectedItems>>
                /\ emitted' = <<>>
                /\ \A other \in Ids \ {id} :
                      Includes(tempChosenItems', other) <=> Includes(tempChosenItems, other)]_vars

\* an id is staged on each side while ids are selected, and the step that led
\* here emitted nothing
C23_Witness ==
    /\ Len(tempSelectedItems) > 0
    /\ Len(tempChosenItems) > 0
    /\ Len(selectedItems) > 1
    /\ \E g \in 1..Len(processedData) : processedData[g].isAllSelected
    /\ emitted = <<>>

(***************************************************************************)
(* C24: getSelectedRecords() returns the ids of the selection in the       *)
(* selection's order, changes neither the selection, the groups, the       *)
(* chosen groups, the registers nor the queued pre-selection, and emits    *)
(* nothing.                                                                *)
(***************************************************************************)
C24_GetSelectedRecordsIsAPureRead ==
    [][getSelectedRecords =>
          /\ returned'.called
          /\ IdsOf(returned'.value) = SelectionSet
          /\ UNCHANGED <<selectedItems, processedData, selectedGroupsData,
                         tempSelectedItems, tempChosenItems, preSelectedRecords,
                         isLoading, error>>
          /\ emitted' = <<>>]_vars

\* a read has returned a selection of two ids, the second id first, while ids
\* were staged
C24_Witness ==
    /\ lastOp = "getSelectedRecords"
    /\ returned.called
    /\ IdsOf(returned.value) = <<IdStr[2], IdStr[1]>>
    /\ SelectionSet = <<IdStr[2], IdStr[1]>>
    /\ Len(tempSelectedItems) > 0
    /\ Len(selectedGroupsData) > 0

(***************************************************************************)
(* C25: in every state, a reload while ids are selected included, a loaded *)
(* item is flagged selected exactly when its id is in the selection, and   *)
(* availableCount is the number of loaded items whose id is not in the     *)
(* selection.                                                              *)
(***************************************************************************)
C25_FlagsAndAvailableCountFollowSelection ==
    /\ \A g \in 1..Len(processedData) :
          \A i \in 1..Len(processedData[g].items) :
             processedData[g].items[i].isSelected
                <=> Selected(processedData[g].items[i].id)
    /\ availableCount =
          Len(SelectSeq(AllItems(processedData, 1), LAMBDA item : ~Selected(item.id)))

\* a pre-selection was supplied and applied to the loaded groups, and the
\* last step was a handler of the user that dispatched the selection
UserChangedAfterRestore ==
    /\ Len(preSelectedRecords) > 0
    /\ Len(processedData) > 0
    /\ emitted # <<>>

(***************************************************************************)
(* C26: a load that arrives after the supplied pre-selection was applied   *)
(* and the user has changed the selection since replaces the groups and    *)
(* leaves the selection as the user left it.                               *)
(***************************************************************************)
C26_ReloadKeepsTheUsersSelection ==
    [][(lastOp' = "load" /\ UserChangedAfterRestore /\ wiredDataLoaded(wired')) =>
          /\ IdSet(AllItems(processedData', 1)) = RowIds(wired')
          /\ SelectionSet' = SelectionSet]_vars

(***************************************************************************)
(* C27: commitToChosen() with an empty available-side register and         *)
(* commitToAvailable() with an empty chosen-side register change neither   *)
(* the selection, the groups, the chosen groups nor the registers, and     *)
(* dispatch nothing.                                                       *)
(***************************************************************************)
C27_CommitOnEmptyRegisterIsANoOp ==
    [][/\ (lastOp' = "commitToChosen" /\ Len(tempSelectedItems) = 0
              /\ moveSelectedToChosen) =>
             /\ UNCHANGED <<selectedItems, processedData, selectedGroupsData,
                            tempSelectedItems, tempChosenItems, preSelectedRecords>>
             /\ emitted' = <<>>
       /\ (lastOp' = "commitToAvailable" /\ Len(tempChosenItems) = 0
              /\ moveChosenToAvailable) =>
             /\ UNCHANGED <<selectedItems, processedData, selectedGroupsData,
                            tempSelectedItems, tempChosenItems, preSelectedRecords>>
             /\ emitted' = <<>>]_vars

\* commitToChosen has run on an empty register while ids were selected and an
\* id was staged on the chosen side
C27_Witness ==
    /\ lastOp = "commitToChosen"
    /\ emitted = <<>>
    /\ tempSelectedItems = <<>>
    /\ Len(tempChosenItems) > 0
    /\ Len(selectedItems) > 0
    /\ Len(selectedGroupsData) > 0

\* the arguments of setSelectedRecords that carry no record: [], null, undefined
EmptyArgs == {x \in PreArgs : Len(OrEmpty(x)) = 0}

(***************************************************************************)
(* C28: setSelectedRecords with an empty or absent list changes neither    *)
(* the selection, the flags of the items and groups, the chosen groups     *)
(* nor the two registers, whatever the state it is called in.              *)
(***************************************************************************)
C28_SetSelectedRecordsOfNothingIsANoOp ==
    [][(lastOp' = "setSelectedRecords" /\ Len(preSelectedRecords') = 0) =>
          \A X \in EmptyArgs :
             setSelectedRecords(X) =>
                UNCHANGED <<selectedItems, processedData, selectedGroupsData,
                            tempSelectedItems, tempChosenItems>>]_vars

\* setSelectedRecords has run with no record on loaded groups while an id was
\* selected and shown as chosen
C28_Witness ==
    /\ lastOp = "setSelectedRecords"
    /\ preSelectedRecords = <<>>
    /\ Len(processedData) > 0
    /\ Len(selectedItems) > 0
    /\ Len(selectedGroupsData) > 0
    /\ \E g \in 1..Len(processedData) : processedData[g].isAllSelected

\* no group and no item of pd carries a selected flag
NoFlagSet(pd) ==
    \A g \in 1..Len(pd) :
       /\ ~pd[g].isAllSelected
       /\ \A i \in 1..Len(pd[g].items) : ~pd[g].items[i].isSelected

\* this step is a successful load after a reset, and no pre-selection has
\* been handed over since that reset
LoadSinceReset ==
    /\ lastOp = "reset"
    /\ lastOp' = "reset"
    /\ emitted' = <<>>
    /\ ~isLoading'
    /\ wiredDataLoaded(wired')

(***************************************************************************)
(* C29 as stated: after resetSelections(), a later successful load with no *)
(* setSelectedRecords call in between leaves the selection empty and every *)
(* group and item unselected.                                              *)
(***************************************************************************)
C29_LoadAfterResetLeavesSelectionEmpty ==
    [][LoadSinceReset =>
          /\ selectedItems' = <<>>
          /\ NoFlagSet(processedData')]_vars

(***************************************************************************)
(* C29, amended: after resetSelections(), a later successful load with no  *)
(* pre-selection handed over in between applies no pre-selection: the      *)
(* queue stays empty, the selection is what it was before the load, and    *)
(* if that is the empty selection it stays empty and every group and item  *)
(* is unselected.                                                          *)
(***************************************************************************)
C29_LoadAfterResetAppliesNoPreSelection ==
    [][LoadSinceReset =>
          /\ preSelectedRecords = <<>>
          /\ preSelectedRecords' = <<>>
          /\ selectedItems' = selectedItems
          /\ selectedItems = <<>> =>
                /\ selectedItems' = <<>>
                /\ NoFlagSet(processedData')]_vars

\* since the last reset no pre-selection has been handed over, the user has
\* selected an id, and a load has produced groups with no flag set
C29_Witness ==
    /\ lastOp = "reset"
    /\ emitted = <<>>
    /\ ~isLoading
    /\ Len(processedData) > 0
    /\ Len(selectedItems) > 0
    /\ NoFlagSet(processedData)
    /\ preSelectedRecords = <<>>

\* this step has run updateSelectedGroupsData: a handler that dispatches the
\* selection, or a restoration by a load, by the selectedRecords setter or by
\* setSelectedRecords
Recomputed ==
    \/ /\ emitted' # <<>>
       /\ emitted' # << <<>> >>
    \/ /\ emitted' # <<>>
       /\ \/ Len(tempSelectedItems) > 0 /\ moveSelectedToChosen
          \/ Len(tempChosenItems) > 0 /\ moveChosenToAvailable
          \/ \E g \in LoadedGroups, c \in BOOLEAN : handleGroupSelect(g, c)
          \/ \E id \in ChosenIds : removeItem(id)
          \/ \E g \in ChosenGroupNames : removeGroup(g)
    \/ /\ emitted' = <<>>
       /\ Len(preSelectedRecords') > 0
       /\ Len(processedData') > 0
       /\ \/ Len(preSelectedRecords) > 0 /\ wiredDataLoaded(wired')
          \/ setSelectedRecordsProp([defined |-> TRUE, value |-> preSelectedRecords'])
          \/ setSelectedRecords([defined |-> TRUE, value |-> preSelectedRecords'])

\* the position of the group named name in pd
GroupAt(pd, name) == CHOOSE g \in 1..Len(pd) : pd[g].groupName = name

\* the chosen groups sgd follow the groups pd: each chosen group is a group of
\* pd, the chosen groups in the order of pd, the items of each in the order of
\* the items of its group
InAvailableOrder(pd, sgd) ==
    /\ \A c \in 1..Len(sgd) : \E g \in 1..Len(pd) : pd[g].groupName = sgd[c].groupName
    /\ \A c, d \in 1..Len(sgd) :
          c < d => GroupAt(pd, sgd[c].groupName) < GroupAt(pd, sgd[d].groupName)
    /\ \A c \in 1..Len(sgd) :
          IsSubsequence(IdsOf(sgd[c].items),
                        IdsOf(pd[GroupAt(pd, sgd[c].groupName)].items))

(***************************************************************************)
(* C30: whenever the chosen groups are recomputed, they come in the order  *)
(* of the available groups and the items of each chosen group in the order *)
(* of the items of that group, whatever the order of the selection.        *)
(***************************************************************************)
C30_ChosenGroupsFollowAvailableOrder ==
    [][Recomputed => InAvailableOrder(processedData', selectedGroupsData')]_vars

\* a handler has just recomputed the chosen groups while the second id of a
\* group was selected before the first: the chosen group lists the first id
\* first
C30_Witness ==
    /\ emitted # <<>>
    /\ SelectionSet = <<IdStr[2], IdStr[1]>>
    /\ Len(processedData) = 1
    /\ IdsOf(processedData[1].items) = <<IdStr[1], IdStr[2]>>
    /\ Len(selectedGroupsData) = 1
    /\ IdsOf(selectedGroupsData[1].items) = <<IdStr[1], IdStr[2]>>
====
